---- MODULE Spec2Model ----
(***************************************************************************)
(* Model of app.py (AI Textbook Generator): the text normalizer            *)
(* clean_formatting, the intro parser parse_preface_and_toc, the in-memory *)
(* book model book_data with generate_book_intro / generate_chapter /      *)
(* generate_all_chapters, and the two renderers export_book_word and       *)
(* export_book_pdf.                                                        *)
(*                                                                         *)
(* A Python str is a sequence of one-character strings; None is the        *)
(* distinguished value NoneVal.                                            *)
(***************************************************************************)
EXTENDS Integers, Sequences, FiniteSets, TLC

\* ------------------------------------------------------------------------
\* Strings
\* ------------------------------------------------------------------------

\* Python's None
NoneVal == <<"None">>

\* `not x` for x a str or None
Falsy(x) == x = NoneVal \/ x = <<>>

MinOf(S) == CHOOSE x \in S : \A y \in S : x <= y

MaxOf(S) == CHOOSE x \in S : \A y \in S : x >= y

\* s[i:] for a 1-based index i
From(s, i) == SubSeq(s, i, Len(s))

\* whitespace removed by str.strip() and matched by \s (ASCII part)
WhiteSpace == {" ", "\t", "\n", "\r", "\f"}

\* str.strip()
Strip(s) ==
  LET keep == {i \in 1..Len(s) : s[i] \notin WhiteSpace}
  IN  IF keep = {} THEN <<>>
      ELSE SubSeq(s, MinOf(keep),
                  CHOOSE i \in keep :
                    \A j \in (i + 1)..Len(s) : s[j] \in WhiteSpace)

RECURSIVE Concat(_)
\* "".join(parts)
Concat(parts) ==
  IF parts = <<>> THEN <<>> ELSE Head(parts) \o Concat(Tail(parts))

RECURSIVE Join(_, _)
\* sep.join(parts)
Join(parts, sep) ==
  IF parts = <<>> THEN <<>>
  ELSE IF Len(parts) = 1 THEN Head(parts)
  ELSE Head(parts) \o sep \o Join(Tail(parts), sep)

UpperLetters == <<"A","B","C","D","E","F","G","H","I","J","K","L","M",
                  "N","O","P","Q","R","S","T","U","V","W","X","Y","Z">>

LowerLetters == <<"a","b","c","d","e","f","g","h","i","j","k","l","m",
                  "n","o","p","q","r","s","t","u","v","w","x","y","z">>

\* the lower-case letter of each upper-case letter
LowerOf ==
  [c \in {UpperLetters[k] : k \in 1..Len(UpperLetters)} |->
     LowerLetters[CHOOSE k \in 1..Len(UpperLetters) : UpperLetters[k] = c]]

\* case folding of one character, as re.IGNORECASE compares ASCII letters
LowerChar(c) == IF c \in DOMAIN LowerOf THEN LowerOf[c] ELSE c

\* the literal `lit` (given in lower case) matches s at index i, ignoring case
MatchAtCI(s, i, lit) ==
  /\ i >= 1
  /\ i + Len(lit) - 1 <= Len(s)
  /\ \A d \in 1..Len(lit) : LowerChar(s[i + d - 1]) = lit[d]

\* ------------------------------------------------------------------------
\* clean_formatting (app.py 45-57)
\* ------------------------------------------------------------------------

\* k asterisks start at index i
IsStars(s, k, i) ==
  /\ i + k - 1 <= Len(s)
  /\ \A d \in 0..(k - 1) : s[i + d] = "*"

\* the positions where the closing delimiter of `\*{k}(.*?)\*{k}` can stand
\* for an opening delimiter at i: `.` does not match "\n"
Closers(s, k, i) ==
  {j \in (i + k)..Len(s) :
     /\ IsStars(s, k, j)
     /\ \A m \in (i + k)..(j - 1) : s[m] # "\n"}

\* the opening delimiters at or after i that have a closing delimiter
Openers(s, k, i) ==
  {p \in i..Len(s) : IsStars(s, k, p) /\ Closers(s, k, p) # {}}

RECURSIVE SubEmphasis(_, _, _)
\* re.sub(r"\*{k}(.*?)\*{k}", r"\1", s) from index i on: leftmost match,
\* lazy group, non-overlapping
SubEmphasis(s, k, i) ==
  IF Openers(s, k, i) = {} THEN From(s, i)
  ELSE LET p == MinOf(Openers(s, k, i))
           j == MinOf(Closers(s, k, p))
       IN  SubSeq(s, i, p - 1) \o SubSeq(s, p + k, j - 1)
             \o SubEmphasis(s, k, j + k)

\* the ASCII members of the glyph denylist of line 52 (the others are
\* non-ASCII symbols and emoji)
Glyphs == {"#", ">"}

IsNotGlyph(c) == c \notin Glyphs

\* re.sub(r"[#...>]", "", s)
RemoveGlyphs(s) == SelectSeq(s, IsNotGlyph)

\* the indices at or after i where "\r\n" stands
CrLfAt(s, i) ==
  {p \in i..(Len(s) - 1) : s[p] = "\r" /\ s[p + 1] = "\n"}

RECURSIVE SubCrLf(_, _)
\* re.sub(r"\r\n", "\n", s) from index i on
SubCrLf(s, i) ==
  IF CrLfAt(s, i) = {} THEN From(s, i)
  ELSE LET p == MinOf(CrLfAt(s, i))
       IN  SubSeq(s, i, p - 1) \o <<"\n">> \o SubCrLf(s, p + 2)

\* the indices at or after i where n characters of S stand in a row
RunAt(s, i, S, n) ==
  {p \in i..(Len(s) - n + 1) : \A d \in 0..(n - 1) : s[p + d] \in S}

\* the last index of the maximal run of characters of S that starts at p
RunEnd(s, p, S) ==
  CHOOSE e \in p..Len(s) :
    /\ \A m \in p..e : s[m] \in S
    /\ (e = Len(s) \/ s[e + 1] \notin S)

RECURSIVE SubRuns(_, _, _, _, _)
\* re.sub(r"[S]{n,}", rep, s) from index i on: leftmost match, greedy
SubRuns(s, i, S, n, rep) ==
  IF RunAt(s, i, S, n) = {} THEN From(s, i)
  ELSE LET p == MinOf(RunAt(s, i, S, n))
           e == RunEnd(s, p, S)
       IN  SubSeq(s, i, p - 1) \o rep \o SubRuns(s, e + 1, S, n, rep)

clean_formatting(text) ==
  IF Falsy(text) THEN <<>>
  ELSE Strip(                                         \* line 57
         SubRuns(                                      \* line 56
           SubRuns(                                    \* line 55
             SubCrLf(                                  \* line 54
               RemoveGlyphs(                           \* line 52
                 SubEmphasis(                          \* line 50
                   SubEmphasis(text, 2, 1),            \* line 49
                   1, 1)),
               1),
             1, {" ", "\t"}, 2, <<" ">>),
           1, {"\n"}, 3, <<"\n", "\n">>))

\* ------------------------------------------------------------------------
\* parse_preface_and_toc (app.py 80-115)
\* ------------------------------------------------------------------------

\* the literal "Table of Contents", lower-cased
TocMarker ==
  <<"t","a","b","l","e"," ","o","f"," ","c","o","n","t","e","n","t","s">>

\* the literal "Chapter", lower-cased
ChapterWord == <<"c","h","a","p","t","e","r">>

\* where re.search(r"Table of Contents", s, re.IGNORECASE) can match
MarkerAt(s) == {i \in 1..Len(s) : MatchAtCI(s, i, TocMarker)}

\* `^` under (?m): the start of the text or just after "\n"
LineStart(s, i) == i = 1 \/ s[i - 1] = "\n"

\* (?i)Chapter\s*1 matches at i
Chapter1At(s, i) ==
  /\ MatchAtCI(s, i, ChapterWord)
  /\ \E j \in (i + Len(ChapterWord))..Len(s) :
       /\ s[j] = "1"
       /\ \A m \in (i + Len(ChapterWord))..(j - 1) : s[m] \in WhiteSpace

\* 1\. matches at i
OneDotAt(s, i) == i + 1 <= Len(s) /\ s[i] = "1" /\ s[i + 1] = "."

\* where re.search(r"(?mi)^(Chapter\s*1|1\.)", s) can match
HeuristicAt(s) ==
  {i \in 1..Len(s) : LineStart(s, i) /\ (Chapter1At(s, i) \/ OneDotAt(s, i))}

\* SplitIntro with the two searches in the other order: the line-start
\* heuristic is tried before the marker
SplitIntroHeuristicFirst(raw) ==
  IF HeuristicAt(raw) # {}
  THEN LET i == MinOf(HeuristicAt(raw))
       IN  [preface_part |-> Strip(SubSeq(raw, 1, i - 1)),
            toc_part     |-> Strip(From(raw, i))]
  ELSE IF MarkerAt(raw) # {}
       THEN LET i == MinOf(MarkerAt(raw))
            IN  [preface_part |-> Strip(SubSeq(raw, 1, i - 1)),
                 toc_part     |-> Strip(From(raw, i + Len(TocMarker)))]
       ELSE [preface_part |-> Strip(raw), toc_part |-> <<>>]

\* lines 85-98: the preface part and the TOC part of a non-empty raw output
SplitIntro(raw) ==
  IF MarkerAt(raw) # {}
  THEN LET i == MinOf(MarkerAt(raw))
       IN  [preface_part |-> Strip(SubSeq(raw, 1, i - 1)),
            toc_part     |-> Strip(From(raw, i + Len(TocMarker)))]
  ELSE IF HeuristicAt(raw) # {}
       THEN LET i == MinOf(HeuristicAt(raw))
            IN  [preface_part |-> Strip(SubSeq(raw, 1, i - 1)),
                 toc_part     |-> Strip(From(raw, i))]
       ELSE [preface_part |-> Strip(raw), toc_part |-> <<>>]

\* the line boundaries of str.splitlines() (ASCII part)
LineBreaks == {"\n", "\r", "\f"}

\* the indices of the line-boundary characters of s
BreakAt(s) == {p \in 1..Len(s) : s[p] \in LineBreaks}

RECURSIVE SplitLines(_)
\* str.splitlines(): "\r\n" is one boundary, no empty line after the last one
SplitLines(s) ==
  IF s = <<>> THEN <<>>
  ELSE IF BreakAt(s) = {} THEN <<s>>
  ELSE LET p == MinOf(BreakAt(s))
           q == IF s[p] = "\r" /\ p + 1 <= Len(s) /\ s[p + 1] = "\n"
                THEN p + 2 ELSE p + 1
       IN  <<SubSeq(s, 1, p - 1)>> \o SplitLines(From(s, q))

\* re.match(r"^\s*Table of Contents\s*$", line, re.IGNORECASE)
IsTocHeader(line) ==
  LET t == Strip(line)
  IN  Len(t) = Len(TocMarker) /\ MatchAtCI(t, 1, TocMarker)

\* lines 104-110: a stripped line that is kept as a TOC line
IsTocLine(line) == line # <<>> /\ ~IsTocHeader(line)

Digits == <<"0","1","2","3","4","5","6","7","8","9">>

\* str(i) for 0 <= i <= 9
DigitStr(i) == <<Digits[i + 1]>>

\* the number of placeholder chapters: range(1, 8)
PlaceholderCount == 7

\* f"{i}. Chapter {i}"
Placeholder(i) ==
  DigitStr(i) \o <<".", " ", "C","h","a","p","t","e","r", " ">> \o DigitStr(i)

\* lines 101-113: the TOC lines of a TOC part
TocLines(toc_part) ==
  IF toc_part # <<>>
  THEN LET ls == SplitLines(toc_part)
           stripped == [k \in 1..Len(ls) |-> Strip(ls[k])]
       IN  SelectSeq(stripped, IsTocLine)
  ELSE [i \in 1..PlaceholderCount |-> Placeholder(i)]

\* line 115: each of toc_lines normalized
CleanedLines(toc_lines) ==
  [k \in 1..Len(toc_lines) |-> clean_formatting(toc_lines[k])]

\* lines 100-115, for the two parts of the raw output
CleanedParts(parts) ==
  [preface |-> clean_formatting(parts.preface_part),
   toc     |-> CleanedLines(TocLines(parts.toc_part))]

parse_preface_and_toc(raw_output) ==
  IF Falsy(raw_output) THEN [preface |-> <<>>, toc |-> <<>>]
  ELSE CleanedParts(SplitIntro(raw_output))

\* ------------------------------------------------------------------------
\* The completion service
\* ------------------------------------------------------------------------

\* the completions the service gives for a chapter prompt
ChapterContents ==
  { <<"*","G","l","o","s","s","a","r","y","*","\n","\n","\n","\n","#",
      "A","s","s","e","s","s","m","e","n","t","s","\n","\t","b"," "," ",
      "c">>,
    <<"x">> }

\* the completions the service gives for the intro prompt: a marker with two
\* title lines, three numbered lines without a marker, an empty completion
IntroContents ==
  { <<" ","*","P","*","\n","T","a","b","l","e"," ","o","f"," ","C","o",
      "n","t","e","n","t","s","\n","1","."," ","a","\n","\n","T","A",
      "B","L","E"," ","O","F"," ","C","O","N","T","E","N","T","S","\n",
      "2","."," ","b">>,
    <<"P","\n","1","."," ","a","\n","2","."," ","b","\n","3","."," ",
      "c">>,
    <<>> }

\* one more character than a preview of generate_all_chapters holds
LongText == [k \in 1..1001 |-> "a"]

\* chapter completions with a long one
LongChapterContents == { LongText, <<"*","x","*">> }

\* clean_formatting of each chapter completion, evaluated once
CleanedCompletion ==
  [c \in ChapterContents \cup LongChapterContents |-> clean_formatting(c)]

\* parse_preface_and_toc of each intro completion, evaluated once
ParsedCompletion == [c \in IntroContents |-> parse_preface_and_toc(c)]

\* clean_formatting(text), looked up if text is a chapter completion
CleanFormatting(text) ==
  IF text \in DOMAIN CleanedCompletion THEN CleanedCompletion[text]
  ELSE clean_formatting(text)

\* parse_preface_and_toc(raw), looked up if raw is an intro completion
ParsePrefaceAndToc(raw) ==
  IF raw \in DOMAIN ParsedCompletion THEN ParsedCompletion[raw]
  ELSE parse_preface_and_toc(raw)

\* ------------------------------------------------------------------------
\* safe_model_call (app.py 60-77)
\* ------------------------------------------------------------------------

\* s starts with pre
StartsWith(s, pre) == Len(s) >= Len(pre) /\ SubSeq(s, 1, Len(pre)) = pre

\* the message of the RuntimeError of line 63
ConfigErrorMsg ==
  <<"G","R","O","Q","_","A","P","I","_","K","E","Y"," ","n","o","t",
    " ","f","o","u","n","d"," ","i","n"," ","e","n","v","i","r","o",
    "n","m","e","n","t","."," ","S","e","t"," ","G","R","O","Q","_",
    "A","P","I","_","K","E","Y"," ","b","e","f","o","r","e"," ","c",
    "a","l","l","i","n","g"," ","t","h","e"," ","m","o","d","e","l",
    ".">>

\* the message of the RuntimeError of line 77; "{e}" and "{tb}" stand for the
\* text of the service's exception and for the traceback
UpstreamErrorMsg ==
  <<"M","o","d","e","l"," ","c","a","l","l"," ","f","a","i","l","e",
    "d",":"," ">> \o <<"{e}", "\n", "{tb}">>

\* what the completion service does with one request: it answers with the
\* text `content` or the request raises
ServiceReplies(contents) ==
  {[answers |-> TRUE, content |-> c] : c \in contents}
    \cup {[answers |-> FALSE, content |-> <<>>]}

\* client is "none" when GROQ_API_KEY was not set at start-up (lines 25-30).
\* The call returns the content, or raises one of the two RuntimeErrors.
safe_model_call(client, reply) ==
  IF client = "none"
  THEN [raised |-> TRUE, gw |-> "config", value |-> ConfigErrorMsg]
  ELSE IF reply.answers
       THEN [raised |-> FALSE, gw |-> "ok", value |-> reply.content]
       ELSE [raised |-> TRUE, gw |-> "upstream", value |-> UpstreamErrorMsg]

\* ------------------------------------------------------------------------
\* book_data and generate_book_intro (app.py 33-42, 118-145)
\* ------------------------------------------------------------------------

\* chapters maps chapter numbers to texts: a function on a finite set of
\* integers
NoChapters == <<>>

InitialBook ==
  [title     |-> <<>>,
   grade     |-> <<>>,
   author    |-> <<>>,
   developer |-> <<"N","a","j","a","f"," ","A","l","i"," ","S","h","a","r","q","i">>,
   medium    |-> <<"E","n","g","l","i","s","h">>,
   toc       |-> <<>>,
   chapters  |-> NoChapters,
   preface   |-> <<>>]

\* (x or "").strip()
OrEmptyStripped(x) == IF Falsy(x) THEN <<>> ELSE Strip(x)

\* lines 120-125: the four parameters are stored before the model is called
WithParameters(bd, title, grade, author, medium) ==
  [bd EXCEPT !.title  = OrEmptyStripped(title),
             !.grade  = OrEmptyStripped(grade),
             !.author = OrEmptyStripped(author),
             !.medium = IF Falsy(medium) THEN <<"E","n","g","l","i","s","h">> ELSE medium]

\* line 143: the text shown for a generated intro
IntroText(preface, toc) ==
  <<"P","r","e","f","a","c","e",":","\n","\n">> \o preface \o <<"\n","\n","T","a","b","l","e"," ","o","f"," ","C","o","n","t","e",
      "n","t","s",":","\n","\n">>
    \o Join(toc, <<"\n">>)

\* lines 138-143: the gateway call returned and its output parsed to `parsed`
IntroSuccess(bd1, parsed, gw) ==
  [book_data |-> [bd1 EXCEPT !.preface = parsed.preface,
                             !.toc = parsed.toc,
                             !.chapters = NoChapters],
   ret |-> IntroText(parsed.preface, parsed.toc),
   gw |-> gw]

\* lines 144-145: the gateway call raised `msg`
IntroFailure(bd1, msg, gw) ==
  [book_data |-> bd1,
   ret |-> <<"E","r","r","o","r"," ","g","e","n","e","r","a","t","i","n","g",
      " ","b","o","o","k"," ","i","n","t","r","o",":"," ">> \o msg,
   gw |-> gw]

\* lines 136-145, for the book model after line 125 and the gateway call's
\* outcome
IntroOutcome(bd1, call) ==
  IF call.raised
  THEN IntroFailure(bd1, call.value, call.gw)
  ELSE IntroSuccess(bd1, ParsePrefaceAndToc(call.value), call.gw)

\* the handler's result: the book model it leaves, the string it returns and
\* what it did with the gateway
generate_book_intro(bd, client, title, grade, author, medium, reply) ==
  IntroOutcome(WithParameters(bd, title, grade, author, medium),
               safe_model_call(client, reply))

\* ------------------------------------------------------------------------
\* generate_chapter (app.py 148-191)
\* ------------------------------------------------------------------------

DigitChars == {Digits[k] : k \in 1..Len(Digits)}

DigitVal(c) == CHOOSE d \in 0..9 : Digits[d + 1] = c

RECURSIVE DigitsToNat(_)
DigitsToNat(s) ==
  IF s = <<>> THEN 0
  ELSE 10 * DigitsToNat(SubSeq(s, 1, Len(s) - 1)) + DigitVal(s[Len(s)])

\* int(ch_num) for ch_num an int <<"int", v>>, a str <<"str", s>> or None
\* <<"none">>: a str is stripped and read as an optional sign and digits
IntOf(ch_num) ==
  IF ch_num[1] = "int" THEN [ok |-> TRUE, v |-> ch_num[2]]
  ELSE IF ch_num[1] = "str"
  THEN LET t == Strip(ch_num[2])
           signed == t # <<>> /\ t[1] \in {"+", "-"}
           body == IF signed THEN Tail(t) ELSE t
       IN  IF body # <<>> /\ \A k \in 1..Len(body) : body[k] \in DigitChars
           THEN [ok |-> TRUE,
                 v |-> IF signed /\ t[1] = "-" THEN 0 - DigitsToNat(body)
                       ELSE DigitsToNat(body)]
           ELSE [ok |-> FALSE, v |-> 0]
  ELSE [ok |-> FALSE, v |-> 0]

\* chapters[n] = text
PutChapter(chapters, n, text) ==
  [k \in (DOMAIN chapters) \cup {n} |-> IF k = n THEN text ELSE chapters[k]]

\* Cached without the look-up: every call generates
CachedNever(bd, ch_index) == FALSE

\* line 155: chapter ch_index is in the store
Cached(bd, ch_index) == ch_index \in DOMAIN bd.chapters

\* ChapterFailure that stores the error text as the chapter
ChapterFailureStored(bd, ch_index, msg) ==
  [book_data |->
     [bd EXCEPT !.chapters = PutChapter(bd.chapters, ch_index,
                                        <<"E","r","r","o","r"," ","g","e","n","e","r","a","t","i","n","g",
      " ","c","h","a","p","t","e","r",":"," ">> \o msg)],
   ret |-> <<"E","r","r","o","r"," ","g","e","n","e","r","a","t","i","n","g",
      " ","c","h","a","p","t","e","r",":"," ">> \o msg]

\* lines 190-191: the result of a call whose gateway call raised `msg`
ChapterFailure(bd, ch_index, msg) ==
  [book_data |-> bd, ret |-> <<"E","r","r","o","r"," ","g","e","n","e","r","a","t","i","n","g",
      " ","c","h","a","p","t","e","r",":"," ">> \o msg]

\* lines 188-189
ChapterStored(bd, ch_index, chapter_text) ==
  [book_data |->
     [bd EXCEPT !.chapters = PutChapter(bd.chapters, ch_index, chapter_text)],
   ret |-> chapter_text]

\* lines 187-189: the result of a call whose gateway call returned raw_out
ChapterSuccess(bd, ch_index, raw_out) ==
  ChapterStored(bd, ch_index, CleanFormatting(raw_out))

\* a result [book_data, ret] with the gateway call it took
AfterCall(r, gw) ==
  [book_data |-> r.book_data, ret |-> r.ret, calls |-> 1, gw |-> gw]

\* lines 185-191, for the gateway call's outcome
ChapterOutcome(bd, ch_index, call) ==
  AfterCall(IF call.raised
            THEN ChapterFailure(bd, ch_index, call.value)
            ELSE ChapterSuccess(bd, ch_index, call.value),
            call.gw)

\* lines 150-191, for the outcome `conv` of int(ch_num)
ChapterFor(bd, client, conv, reply) ==
  IF ~conv.ok
  THEN [book_data |-> bd, ret |-> <<"I","n","v","a","l","i","d"," ","c","h","a","p","t","e","r"," ",
      "n","u","m","b","e","r",".">>,
        calls |-> 0, gw |-> "none"]
  ELSE IF Cached(bd, conv.v)
  THEN [book_data |-> bd, ret |-> bd.chapters[conv.v],
        calls |-> 0, gw |-> "none"]
  ELSE ChapterOutcome(bd, conv.v, safe_model_call(client, reply))

\* The handler's result: the book model it leaves, the string it returns,
\* the number of gateway calls it made and how the gateway call ended. The
\* chapter title of lines 159-166 goes into the prompt only, and the
\* service's reply does not depend on the prompt.
generate_chapter(bd, client, ch_num, reply) ==
  ChapterFor(bd, client, IntOf(ch_num), reply)

\* ------------------------------------------------------------------------
\* generate_all_chapters (app.py 194-202)
\* ------------------------------------------------------------------------

RECURSIVE NatStr(_)
\* str(n) for n >= 0
NatStr(n) ==
  IF n < 10 THEN DigitStr(n) ELSE NatStr(n \div 10) \o DigitStr(n % 10)

\* str(n)
IntStr(n) == IF n < 0 THEN <<"-">> \o NatStr(0 - n) ELSE NatStr(n)

\* the length of a preview: chapter_text[:1000]
PreviewLen == 1000

\* Preview that cuts at the length but marks nothing
PreviewUnmarked(text) ==
  IF Len(text) > PreviewLen THEN SubSeq(text, 1, PreviewLen) ELSE text

\* line 201: the preview of a returned text
Preview(text) ==
  IF Len(text) > PreviewLen
  THEN SubSeq(text, 1, PreviewLen) \o <<".", ".", ".">>
  ELSE text

\* BulkTotal that runs one chapter past the table of contents
BulkTotalOneMore(bd) == Len(bd.toc) + 1

\* line 197: max(1, len(book_data.get("toc") or []))
BulkTotal(bd) == IF Len(bd.toc) > 1 THEN Len(bd.toc) ELSE 1

\* line 199: the log entry that announces chapter i
Announce(i) == <<"G","e","n","e","r","a","t","i","n","g"," ","C","h","a","p","t",
      "e","r"," ">> \o IntStr(i) \o <<".", ".", ".">>

\* lines 199-201: one iteration, r being the result of generate_chapter(i)
BulkAppend(acc, i, r) ==
  [book_data |-> r.book_data,
   results   |-> acc.results \o << Announce(i), Preview(r.ret) >>,
   calls     |-> acc.calls + r.calls,
   attempted |-> Append(acc.attempted, i)]

\* line 202, for what the loop leaves
BulkReturn(done) ==
  [book_data |-> done.book_data,
   results   |-> done.results,
   ret       |-> Join(done.results, <<"\n", "\n">>),
   calls     |-> done.calls,
   attempted |-> done.attempted]

RECURSIVE BulkLoop(_, _, _, _, _)
\* lines 198-201 from chapter i on; replies[i] is what the service does if
\* generate_chapter(i) calls it. `attempted` lists the numbers passed to
\* generate_chapter and `calls` counts the gateway calls.
BulkLoop(acc, i, total, client, replies) ==
  IF i > total THEN acc
  ELSE BulkLoop(BulkAppend(acc, i,
                           generate_chapter(acc.book_data, client,
                                            <<"int", i>>, replies[i])),
                i + 1, total, client, replies)

generate_all_chapters(bd, client, replies) ==
  BulkReturn(BulkLoop([book_data |-> bd, results |-> <<>>, calls |-> 0,
                       attempted |-> <<>>],
                      1, BulkTotal(bd), client, replies))

\* ------------------------------------------------------------------------
\* export_book_word and export_book_pdf (app.py 206-360)
\* ------------------------------------------------------------------------

\* One element of a document. `part` names the statement that emits it;
\* align, bold and size are the paragraph's alignment, weight and font size.
Para(part, text, align, bold, size) ==
  [part |-> part, text |-> text, align |-> align, bold |-> bold, size |-> size]

\* doc.add_page_break() / PageBreak(), Spacer(1, 12), the TOC field
Mark(part) == Para(part, <<>>, "none", FALSE, 0)

\* _add_centered_paragraph (206-217)
WordCentered(part, text, size, bold) == Para(part, text, "center", bold, size)

\* _add_left_paragraph (220-231)
WordLeft(part, text, size, bold) == Para(part, text, "left", bold, size)

\* ParagraphStyle("Normal", Times-Roman 12) (322)
PdfNormal(part, text) == Para(part, text, "left", FALSE, 12)

\* ParagraphStyle("HCenter", Times-Bold 18, alignment=1) (323)
PdfHeadingCenter(part, text) == Para(part, text, "center", TRUE, 18)

\* ParagraphStyle("Sub", Times-Bold 12) (324)
PdfSubheading(part, text) == Para(part, text, "left", TRUE, 12)

\* sorted(chapters.keys())
SortedKeys(chapters) ==
  LET D == DOMAIN chapters
  IN  [k \in 1..Cardinality(D) |->
         CHOOSE x \in D : Cardinality({y \in D : y < x}) = k - 1]

\* lines 295 and 349: the heading of chapter num
TitleLine(bd, num) ==
  IF 0 <= num - 1 /\ num - 1 < Len(bd.toc)
  THEN bd.toc[num]
  ELSE <<"C","h","a","p","t","e","r"," ">> \o IntStr(num)

\* the alternatives of the regular expression of line 304, in its order
HeadingKeywords ==
  << <<"s","t","u","d","e","n","t"," ","l","e","a","r","n","i","n","g",
      " ","o","u","t","c","o","m","e","s">>,
     <<"a","c","t","i","v","i","t","i","e","s">>,
     <<"a","s","s","e","s","s","m","e","n","t">>,
     <<"g","l","o","s","s","a","r","y">>,
     <<"p","o","s","t","-","a","s","s","e","s","s","m","e","n","t">>,
     <<"a","c","t","i","v","i","t","i","e","s"," ","o","r"," ","c","a",
      "s","e"," ","s","t","u","d","i","e","s">> >>

\* \w (ASCII part)
IsWordChar(c) ==
  \/ c \in DOMAIN LowerOf
  \/ c \in {LowerOf[u] : u \in DOMAIN LowerOf}
  \/ c \in DigitChars
  \/ c = "_"

\* re.match(r"(?i)^(student learning outcomes|...)\b", stripped)
HeadingMatch(stripped) ==
  \E a \in 1..Len(HeadingKeywords) :
    LET kw == HeadingKeywords[a]
    IN  /\ MatchAtCI(stripped, 1, kw)
        /\ (Len(stripped) = Len(kw) \/ ~IsWordChar(stripped[Len(kw) + 1]))

\* the stripped non-blank lines of a chapter text, in their order
BodyLines(text) ==
  LET ls == SplitLines(text)
      stripped == [k \in 1..Len(ls) |-> Strip(ls[k])]
  IN  SelectSeq(stripped, LAMBDA l : l # <<>>)

\* lines 299-307
WordBody(text) ==
  LET ls == BodyLines(text)
  IN  [k \in 1..Len(ls) |->
         WordLeft("chapter_line", ls[k], 12, HeadingMatch(ls[k]))]

\* lines 351-354
PdfBody(text) ==
  LET ls == BodyLines(text)
  IN  [k \in 1..Len(ls) |-> PdfNormal("chapter_line", ls[k])]

RECURSIVE WordChapters(_, _)
\* lines 293-308, for the chapter numbers `keys`
WordChapters(bd, keys) ==
  IF keys = <<>> THEN <<>>
  ELSE << WordCentered("chapter_heading", TitleLine(bd, Head(keys)), 12, TRUE) >>
         \o WordBody(bd.chapters[Head(keys)])
         \o << Mark("page_break") >>
         \o WordChapters(bd, Tail(keys))

RECURSIVE PdfChapters(_, _)
\* lines 348-355, for the chapter numbers `keys`
PdfChapters(bd, keys) ==
  IF keys = <<>> THEN <<>>
  ELSE << PdfSubheading("chapter_heading", TitleLine(bd, Head(keys))) >>
         \o PdfBody(bd.chapters[Head(keys)])
         \o << Mark("page_break") >>
         \o PdfChapters(bd, Tail(keys))

\* lines 267-308: the document, for the date string `date`
WordDocument(bd, date) ==
  << WordCentered("attribution", bd.developer, 12, TRUE),
     WordCentered("title", bd.title, 18, TRUE),
     WordCentered("grade", <<"G","r","a","d","e",":"," ">> \o bd.grade, 12, FALSE),
     WordCentered("author", <<"A","u","t","h","o","r",":"," ">> \o bd.author, 12, FALSE),
     WordCentered("developer", <<"D","e","v","e","l","o","p","e","d"," ","b","y",":"," ">> \o bd.developer,
                  12, FALSE),
     WordCentered("date", <<"D","a","t","e",":"," ">> \o date, 12, FALSE),
     Mark("page_break"),
     WordCentered("preface_heading", <<"P","r","e","f","a","c","e">>, 12, TRUE),
     WordLeft("preface_body", bd.preface, 12, FALSE),
     Mark("page_break"),
     WordCentered("toc_heading", <<"T","a","b","l","e"," ","o","f"," ","C","o","n","t","e","n","t",
      "s">>, 12, TRUE),
     Mark("toc_field"),
     Mark("page_break") >>
    \o WordChapters(bd, SortedKeys(bd.chapters))

\* lines 326-355: the story, for the date string `date`
PdfStory(bd, date) ==
  << PdfSubheading("attribution", bd.developer),
     PdfHeadingCenter("title", bd.title),
     Mark("spacer"),
     PdfNormal("grade", <<"G","r","a","d","e",":"," ">> \o bd.grade),
     PdfNormal("author", <<"A","u","t","h","o","r",":"," ">> \o bd.author),
     PdfNormal("date", <<"D","a","t","e",":"," ">> \o date),
     Mark("page_break"),
     PdfSubheading("preface_heading", <<"P","r","e","f","a","c","e">>),
     PdfNormal("preface_body", bd.preface),
     Mark("page_break"),
     PdfSubheading("toc_heading",
       <<"T","a","b","l","e"," ","o","f"," ","C","o","n","t","e","n","t",
      "s"," ","(","o","p","e","n"," ","t","h","e"," ","W","o","r","d",
      " ",".","d","o","c","x"," ","t","o"," ","g","e","t"," ","p","a",
      "g","e","-","n","u","m","b","e","r","e","d"," ","T","O","C",")">>) >>
    \o [k \in 1..Len(bd.toc) |-> PdfNormal("toc_line", bd.toc[k])]
    \o << Mark("page_break") >>
    \o PdfChapters(bd, SortedKeys(bd.chapters))

\* "{e}" and "{tb}" stand for the exception's text and the traceback
ExportFailure == <<"{e}", "\n", "{tb}">>

\* saved is FALSE when building or writing the file raises (doc.save, 311)
export_book_word(bd, date, saved) ==
  IF saved
  THEN [ret |-> <<"/","t","m","p","/","T","e","x","t","b","o","o","k","_","A","I",
      "_","G","e","n","e","r","a","t","e","d",".","d","o","c","x">>,
        emitted |-> WordDocument(bd, date)]
  ELSE [ret |-> <<"E","r","r","o","r"," ","e","x","p","o","r","t","i","n","g"," ",
      "W","o","r","d",":"," ">> \o ExportFailure,
        emitted |-> <<>>]

\* saved is FALSE when building or writing the file raises (doc.build, 357)
export_book_pdf(bd, date, saved) ==
  IF saved
  THEN [ret |-> <<"/","t","m","p","/","T","e","x","t","b","o","o","k","_","A","I",
      "_","G","e","n","e","r","a","t","e","d",".","p","d","f">>,
        emitted |-> PdfStory(bd, date)]
  ELSE [ret |-> <<"E","r","r","o","r"," ","e","x","p","o","r","t","i","n","g"," ",
      "P","D","F",":"," ">> \o ExportFailure,
        emitted |-> <<>>]

\* ------------------------------------------------------------------------
\* State
\* ------------------------------------------------------------------------

VARIABLES
  \* the credential was found at start-up ("ok") or not ("none")
  client,
  \* the in-memory store
  book_data,
  \* the last handler call: [op, n, valid, gw]: its name, the chapter number
  \* it converted its argument to and whether that conversion succeeded, and
  \* how its (last) gateway call ended ("none": it made none)
  last,
  \* the string the last handler call returned
  ret,
  \* the number of gateway calls the last handler call made
  calls,
  \* the chapter numbers the last generate_all_chapters call passed to
  \* generate_chapter, in order, and its `results` list
  attempted, results,
  \* the elements of the document the last export call wrote
  emitted,
  \* clean_formatting applied to an input, then to its own output
  c_in, c_out1, c_out2, c_pc,
  \* parse_preface_and_toc applied to a raw completion; p_pre and p_titles
  \* record the preface text and title lines a structured input was built of
  p_raw, p_kind, p_pre, p_titles, p_out, p_pc

bookVars == <<client, book_data, last, ret, calls, attempted, results, emitted>>

cleanVars == <<c_in, c_out1, c_out2, c_pc>>

parseVars == <<p_raw, p_kind, p_pre, p_titles, p_out, p_pc>>

vars == <<bookVars, cleanVars, parseVars>>

\* all strings over alphabet A of length at most n
StringsUpTo(A, n) == UNION {[1..k -> A] : k \in 0..n}

CleanIdle ==
  /\ c_in = <<>> /\ c_out1 = <<>> /\ c_out2 = <<>> /\ c_pc = "idle"

\* the record of a handler call
Call(op, n, valid, gw) == [op |-> op, n |-> n, valid |-> valid, gw |-> gw]

BookStart ==
  /\ book_data = InitialBook
  /\ last = Call("start", 0, TRUE, "none")
  /\ ret = <<>> /\ calls = 0
  /\ attempted = <<>> /\ results = <<>> /\ emitted = <<>>

BookIdle == client = "none" /\ BookStart

ParseIdle ==
  /\ p_raw = <<>> /\ p_kind = "idle" /\ p_pre = <<>> /\ p_titles = <<>>
  /\ p_out = [preface |-> <<>>, toc |-> <<>>] /\ p_pc = "idle"

\* ------------------------------------------------------------------------
\* Spec: the handlers the UI calls on the book model (app.py 405-424)
\* ------------------------------------------------------------------------

\* the largest chapter number passed to generate_chapter directly
MaxChNum == 3

TitleInputs == { NoneVal, <<" ","A"," ">> }

GradeInputs == { <<"3">> }

AuthorInputs == { <<"K">> }

\* the Radio's choices; None when nothing is selected
MediumInputs == { NoneVal }

\* the arguments of generate_chapter: the buttons pass integers
ChNumInputs ==
  {<<"int", k>> : k \in 0..MaxChNum}
    \cup { <<"str", <<" ","2">>>>, <<"str", <<"x">>>>, <<"none">> }

\* datetime.now().strftime('%B %d, %Y')
Dates == { <<"M","a","y"," ","0","1">> }

Init ==
  /\ client \in {"none", "ok"}
  /\ BookStart
  /\ CleanIdle /\ ParseIdle

\* the "Generate TOC + Preface" button (424), the service answering with one
\* of `contents`. In each action r is what the handler leaves and returns.
GenerateBookIntroOf(contents) ==
  \E title \in TitleInputs, grade \in GradeInputs, author \in AuthorInputs,
     medium \in MediumInputs, reply \in ServiceReplies(contents) :
    \E r \in {generate_book_intro(book_data, client, title, grade, author,
                                 medium, reply)} :
        /\ book_data' = r.book_data
        /\ ret' = r.ret
        /\ calls' = 1
        /\ last' = Call("generate_book_intro", 0, TRUE, r.gw)
        /\ attempted' = <<>> /\ results' = <<>> /\ emitted' = <<>>
        /\ UNCHANGED <<client, cleanVars, parseVars>>

\* a "Generate Chapter i" button (405), or a call with another argument
GenerateChapterOf(nums, contents) ==
  \E ch_num \in nums, reply \in ServiceReplies(contents) :
    \E r \in {generate_chapter(book_data, client, ch_num, reply)} :
        /\ book_data' = r.book_data
        /\ ret' = r.ret
        /\ calls' = r.calls
        /\ last' = Call("generate_chapter", IntOf(ch_num).v, IntOf(ch_num).ok,
                        r.gw)
        /\ attempted' = <<>> /\ results' = <<>> /\ emitted' = <<>>
        /\ UNCHANGED <<client, cleanVars, parseVars>>

\* the "Generate All Chapters" button (411)
GenerateAllChaptersOf(contents) ==
  \E replies \in [1..BulkTotal(book_data) -> ServiceReplies(contents)] :
    \E r \in {generate_all_chapters(book_data, client, replies)} :
        /\ book_data' = r.book_data
        /\ ret' = r.ret
        /\ calls' = r.calls
        /\ last' = Call("generate_all_chapters", 0, TRUE, "none")
        /\ attempted' = r.attempted /\ results' = r.results
        /\ emitted' = <<>>
        /\ UNCHANGED <<client, cleanVars, parseVars>>

GenerateBookIntro == GenerateBookIntroOf(IntroContents)

GenerateChapter == GenerateChapterOf(ChNumInputs, ChapterContents)

GenerateAllChapters == GenerateAllChaptersOf(ChapterContents)

\* the "Download MS Word" button (415)
ExportBookWord ==
  \E date \in Dates, saved \in BOOLEAN :
    \E r \in {export_book_word(book_data, date, saved)} :
        /\ ret' = r.ret
        /\ emitted' = r.emitted
        /\ calls' = 0
        /\ last' = Call("export_book_word", 0, TRUE, "none")
        /\ attempted' = <<>> /\ results' = <<>>
        /\ UNCHANGED <<client, book_data, cleanVars, parseVars>>

\* the "Download PDF" button (416)
ExportBookPdf ==
  \E date \in Dates, saved \in BOOLEAN :
    \E r \in {export_book_pdf(book_data, date, saved)} :
        /\ ret' = r.ret
        /\ emitted' = r.emitted
        /\ calls' = 0
        /\ last' = Call("export_book_pdf", 0, TRUE, "none")
        /\ attempted' = <<>> /\ results' = <<>>
        /\ UNCHANGED <<client, book_data, cleanVars, parseVars>>

Next ==
  \/ GenerateBookIntro
  \/ GenerateChapter
  \/ GenerateAllChapters
  \/ ExportBookWord
  \/ ExportBookPdf

Spec == Init /\ [][Next]_vars

\* ------------------------------------------------------------------------
\* SpecLong: the generation handlers, the service giving long chapters too
\* ------------------------------------------------------------------------

LongGenerateBookIntro == GenerateBookIntroOf(IntroContents)

LongGenerateChapter ==
  GenerateChapterOf({<<"int", 1>>, <<"int", 3>>}, LongChapterContents)

LongGenerateAllChapters == GenerateAllChaptersOf(LongChapterContents)

LongNext ==
  \/ LongGenerateBookIntro
  \/ LongGenerateChapter
  \/ LongGenerateAllChapters

SpecLong == Init /\ [][LongNext]_vars

\* ------------------------------------------------------------------------
\* Properties of the handlers
\* ------------------------------------------------------------------------

Chapters == book_data.chapters

\* C1: when chapter n is in the store, generate_chapter(n) returns the stored
\* text, makes no gateway call and changes nothing of the book model; a call
\* that stores chapter n returns the text it stored after one gateway call;
\* and until the next generate_book_intro a stored text stays as it is, so
\* all calls for n that find or produce the chapter return the same text.
C1_ChapterCache ==
  [][ /\ (last'.op = "generate_chapter" /\ last'.valid
            /\ last'.n \in DOMAIN Chapters
          => /\ ret' = Chapters[last'.n]
             /\ calls' = 0 /\ last'.gw = "none"
             /\ book_data' = book_data)
      /\ (last'.op = "generate_chapter" /\ last'.valid
            /\ last'.n \notin DOMAIN Chapters
            /\ last'.n \in DOMAIN Chapters'
          => ret' = Chapters'[last'.n] /\ calls' = 1)
      /\ (last'.op # "generate_book_intro"
          => \A n \in DOMAIN Chapters :
               n \in DOMAIN Chapters' /\ Chapters'[n] = Chapters[n])
    ]_vars

\* generate_chapter(n) has just been answered from the store
C1_Witness ==
  /\ last.op = "generate_chapter" /\ last.valid
  /\ last.n \in DOMAIN Chapters
  /\ calls = 0 /\ ret = Chapters[last.n]

\* C2: after every call of generate_book_intro the chapters mapping is empty.
C2_ResetOnIntro ==
  last.op = "generate_book_intro" => DOMAIN Chapters = {}

ChapterErrorPrefix == <<"E","r","r","o","r"," ","g","e","n","e","r","a","t","i","n","g",
      " ","c","h","a","p","t","e","r",":"," ">>

InvalidChapterNumber == <<"I","n","v","a","l","i","d"," ","c","h","a","p","t","e","r"," ",
      "n","u","m","b","e","r",".">>

\* the strings generate_chapter returns for a failure
IsChapterError(r) ==
  \/ StartsWith(r, ChapterErrorPrefix)
  \/ r = InvalidChapterNumber

C4_KeysInTocRange ==
  \A k \in DOMAIN Chapters : k \in 1..Len(book_data.toc)

\* C4 (amended): a key enters chapters only as the number n of a
\* generate_chapter(n) call, whatever integer n is, or in
\* generate_all_chapters as a number of 1..max(1, len(toc)); no other handler
\* adds a key.
C4_KeysAsRequested ==
  [][ LET new == (DOMAIN Chapters') \ (DOMAIN Chapters)
          total == IF Len(book_data.toc) >= 1 THEN Len(book_data.toc) ELSE 1
      IN  /\ (last'.op = "generate_chapter" =>
                new \subseteq {last'.n} /\ (new # {} => last'.valid))
          /\ (last'.op = "generate_all_chapters" => new \subseteq 1..total)
          /\ (last'.op \notin {"generate_chapter", "generate_all_chapters"}
                => new = {})
    ]_vars

\* with a TOC of two or more lines, a chapter below 1 and a chapter above
\* len(toc) are in the store, and generate_all_chapters has just run
C4_Witness ==
  /\ Len(book_data.toc) >= 2
  /\ last.op = "generate_all_chapters"
  /\ \E k \in DOMAIN Chapters : k < 1
  /\ \E k \in DOMAIN Chapters : k > Len(book_data.toc)
  /\ \A k \in 1..Len(book_data.toc) : k \in DOMAIN Chapters

\* the first n characters of text
FirstChars(text, n) == SubSeq(text, 1, IF Len(text) < n THEN Len(text) ELSE n)

\* a generate_all_chapters step that attempts exactly 1..total in ascending
\* order through generate_chapter: one gateway call per chapter that was not
\* stored, none for a stored one, and per chapter the log entry and the
\* first 1000 characters of the returned text, followed by `more` if the
\* text is longer
BulkStep(total, more) ==
  /\ attempted' = [i \in 1..total |-> i]
  /\ calls' = Cardinality({i \in 1..total : i \notin DOMAIN Chapters})
  /\ \A i \in DOMAIN Chapters :
       i \in DOMAIN Chapters' /\ Chapters'[i] = Chapters[i]
  /\ (DOMAIN Chapters') \ (DOMAIN Chapters) \subseteq 1..total
  /\ Len(results') = 2 * total
  /\ \A i \in 1..total :
       /\ results'[2 * i - 1] = Announce(i)
       /\ IF i \in DOMAIN Chapters'
          THEN LET text == Chapters'[i]
               IN  results'[2 * i] =
                     FirstChars(text, 1000)
                       \o (IF Len(text) > 1000 THEN more ELSE <<>>)
          ELSE IsChapterError(results'[2 * i])
  /\ ret' = Join(results', <<"\n", "\n">>)

StartsWithKeyword(line) ==
  \E a \in 1..Len(HeadingKeywords) : MatchAtCI(line, 1, HeadingKeywords[a])

\* C7: in the document either renderer writes, a chapter body line is a bold
\* left-aligned heading exactly when it starts with one of the six keywords,
\* and left-aligned body text otherwise.
C7_SameClassification ==
  last.op \in {"export_book_word", "export_book_pdf"} =>
    \A k \in 1..Len(emitted) :
      emitted[k].part = "chapter_line" =>
        /\ emitted[k].align = "left"
        /\ emitted[k].bold = StartsWithKeyword(emitted[k].text)

RECURSIVE ChapterOutline(_, _)
\* per chapter number: the heading, the non-blank lines, a page break
ChapterOutline(bd, keys) ==
  IF keys = <<>> THEN <<>>
  ELSE LET n == Head(keys)
           heading == IF n \in 1..Len(bd.toc) THEN bd.toc[n]
                      ELSE <<"C","h","a","p","t","e","r"," ">> \o IntStr(n)
           ls == BodyLines(bd.chapters[n])
       IN  << <<"chapter_heading", heading>> >>
             \o [k \in 1..Len(ls) |-> <<"chapter_line", ls[k]>>]
             \o << <<"page_break", <<>> >> >>
             \o ChapterOutline(bd, Tail(keys))

\* the sections of an exported book, in the order both renderers are to
\* write them
BookOutline(bd) ==
  << <<"attribution", <<>> >>, <<"title", <<>> >>, <<"grade", <<>> >>,
     <<"author", <<>> >>, <<"developer", <<>> >>, <<"date", <<>> >>,
     <<"page_break", <<>> >>,
     <<"preface_heading", <<>> >>, <<"preface_body", <<>> >>,
     <<"page_break", <<>> >>,
     <<"toc_heading", <<>> >>,
     <<"page_break", <<>> >> >>
    \o ChapterOutline(bd, SortedKeys(bd.chapters))

\* what a written document shows of that order: its elements without the
\* content of the Table of Contents section and without spacing, the text
\* kept for the chapter parts
Outline(doc) ==
  LET kept == SelectSeq(doc, LAMBDA e :
                e.part \notin {"toc_field", "toc_line", "spacer"})
  IN  [k \in 1..Len(kept) |->
         << kept[k].part,
            IF kept[k].part \in {"chapter_heading", "chapter_line"}
            THEN kept[k].text ELSE <<>> >>]

\* C9: the document either renderer writes has the same sections in the same
\* order: attribution, title page (title, grade, author, developer, date),
\* preface, table of contents, then the stored chapters in ascending order.
C9_SameTraversal ==
  last.op \in {"export_book_word", "export_book_pdf"} /\ emitted # <<>>
    => Outline(emitted) = BookOutline(book_data)

\* ------------------------------------------------------------------------
\* SpecClean: clean_formatting on every short text, twice
\* ------------------------------------------------------------------------

\* the longest input text of SpecClean
MaxCleanLen == 5

CleanAlphabet == {"a", "*", "#", " ", "\t", "\r", "\n"}

CleanInputs == StringsUpTo(CleanAlphabet, MaxCleanLen) \cup {NoneVal}

CleanInit ==
  /\ c_in \in CleanInputs
  /\ c_out1 = <<>> /\ c_out2 = <<>> /\ c_pc = "input"
  /\ ParseIdle /\ BookIdle

CleanOnce ==
  /\ c_pc = "input"
  /\ c_out1' = clean_formatting(c_in)
  /\ c_pc' = "once"
  /\ UNCHANGED <<c_in, c_out2, parseVars, bookVars>>

CleanTwice ==
  /\ c_pc = "once"
  /\ c_out2' = clean_formatting(c_out1)
  /\ c_pc' = "twice"
  /\ UNCHANGED <<c_in, c_out1, parseVars, bookVars>>

CleanNext == CleanOnce \/ CleanTwice

SpecClean == CleanInit /\ [][CleanNext]_vars

\* C8: clean_formatting(clean_formatting(x)) = clean_formatting(x) for every
\* text x, and clean_formatting of the empty string or None is the empty
\* string.
C8_Idempotent ==
  /\ (c_pc = "twice" => c_out2 = c_out1)
  /\ (c_pc \in {"once", "twice"} /\ Falsy(c_in) => c_out1 = <<>>)

\* ------------------------------------------------------------------------
\* SpecParse: parse_preface_and_toc on raw completions
\* ------------------------------------------------------------------------

\* the most pieces a free raw completion is concatenated from
MaxPieces == 4

\* the most title lines a structured raw completion lists
MaxTitles == 3

ParsePieces ==
  { <<"T","a","b","l","e"," ","O","f"," ","c","o","n","t","e","n","t","s">>,
    <<"C","h","a","p","t","e","r">>,
    <<"1">>, <<".">>, <<" ">>, <<"\n">>, <<"a">>, <<"*","b","*">> }

\* the prefaces of structured raw completions (none holds the marker)
StructPrefaces ==
  { <<>>, <<"a","\n">>, <<" ","*","a","*"," ","#","\n","1",".","\n">> }

\* the title lines of structured raw completions: non-blank, no header
TitleLines ==
  { <<"1","."," ","a">>, <<" ","*","b","*"," "," ","c">>,
    <<"C","h","a","p","t","e","r"," ","1">>, <<"#">> }

\* the separators between the title lines
LineSeps == { <<"\n">>, <<"\r","\n">>, <<"\n","\n">> }

ParseInit ==
  /\ CleanIdle /\ BookIdle
  /\ p_out = [preface |-> <<>>, toc |-> <<>>]
  /\ p_pc = "input"
  /\ \/ /\ p_kind = "free"
        /\ p_pre = <<>> /\ p_titles = <<>>
        /\ \/ \E parts \in StringsUpTo(ParsePieces, MaxPieces) :
                p_raw = Concat(parts)
           \/ p_raw = NoneVal
     \/ /\ p_kind = "lines"
        /\ p_pre \in StructPrefaces
        /\ p_titles \in StringsUpTo(TitleLines, MaxTitles)
        /\ \E sep \in LineSeps :
             p_raw = p_pre \o <<"T","a","b","l","e"," ","o","f"," ",
                                "C","o","n","t","e","n","t","s">>
                           \o sep \o Join(p_titles, sep)

Parse ==
  /\ p_pc = "input"
  /\ p_out' = parse_preface_and_toc(p_raw)
  /\ p_pc' = "done"
  /\ UNCHANGED <<cleanVars, bookVars, p_raw, p_kind, p_pre, p_titles>>

ParseNext == Parse

SpecParse == ParseInit /\ [][ParseNext]_vars

\* the 7 placeholder entries "1. Chapter 1" .. "7. Chapter 7"
Placeholders == [i \in 1..7 |-> Placeholder(i)]

\* the stripped lines of the TOC candidate that are neither blank nor a
\* repeated header
RemainingTitleLines(raw) ==
  IF Falsy(raw) THEN <<>>
  ELSE LET ls == SplitLines(SplitIntro(raw).toc_part)
       IN  SelectSeq([k \in 1..Len(ls) |-> Strip(ls[k])], IsTocLine)

\* C5: parse_preface_and_toc returns a non-empty TOC for every raw text, and
\* exactly the 7 placeholders whenever no title line remains.
C5_TocNeverEmpty ==
  p_pc = "done" =>
    /\ Len(p_out.toc) >= 1
    /\ (RemainingTitleLines(p_raw) = <<>> => p_out.toc = Placeholders)

\* the text s split at index i: the preface is the normalized text before i
\* and the TOC is built of the text from index j on
SplitsAt(out, s, i, j) ==
  LET cand == TocLines(Strip(From(s, j)))
  IN  /\ out.preface = clean_formatting(SubSeq(s, 1, i - 1))
      /\ out.toc = [k \in 1..Len(cand) |-> clean_formatting(cand[k])]

\* the three tiers in their order, for the set `heur` of the indices where a
\* line of s starts with the second tier's pattern
PriorityOrder(out, s, heur) ==
  IF Falsy(s) THEN out.preface = <<>>
  ELSE IF MarkerAt(s) # {}
  THEN SplitsAt(out, s, MinOf(MarkerAt(s)), MinOf(MarkerAt(s)) + Len(TocMarker))
  ELSE IF heur # {}
  THEN SplitsAt(out, s, MinOf(heur), MinOf(heur))
  ELSE out.preface = clean_formatting(s)

\* k >= 1 title lines after the marker come back as the TOC: each normalized,
\* in their order, without the marker line
TitlesKept ==
  p_kind = "lines" /\ p_pc = "done" /\ p_titles # <<>> =>
    /\ p_out.preface = clean_formatting(p_pre)
    /\ p_out.toc = [k \in 1..Len(p_titles) |-> clean_formatting(p_titles[k])]

\* the lines that start with the literal "Chapter 1" (one space) or "1."
LiteralChapter1Lines(s) ==
  {i \in 1..Len(s) :
     /\ LineStart(s, i)
     /\ \/ MatchAtCI(s, i, ChapterWord \o <<" ", "1">>)
        \/ OneDotAt(s, i)}

Chapter1Lines(s) ==
  {i \in 1..Len(s) :
     /\ LineStart(s, i)
     /\ \/ /\ MatchAtCI(s, i, ChapterWord)
           /\ LET rest == From(s, i + Len(ChapterWord))
                  digits == {j \in 1..Len(rest) : rest[j] \notin WhiteSpace}
              IN  digits # {} /\ rest[MinOf(digits)] = "1"
        \/ (i < Len(s) /\ SubSeq(s, i, i + 1) = <<"1", ".">>)}

====
